---- MODULE Spec2Model ----
(***************************************************************************)
(* SubprocessLanguage (interpreter/core/computer/terminal/languages/        *)
(* subprocess_language.py): a session object that drives one long-lived     *)
(* child process.  run(code) writes code to the child's stdin and drains    *)
(* the queue that two reader threads (stdout, stderr) fill with events.     *)
(*                                                                          *)
(* Text is modelled as a sequence of one-character strings, so that the     *)
(* substring tests, re.sub, str.replace and str.strip of the source are     *)
(* computed, not assumed.                                                   *)
(***************************************************************************)
EXTENDS Integers, Sequences, FiniteSets, TLC

(***************************************************************************)
(* Bounds of the model.                                                     *)
(***************************************************************************)
\* segments concatenated to build the lines a reader is tried on
MaxSegs == 3
\* lines the child processes emit in one behaviour of the session
MaxEmit == 2
\* run() calls in one behaviour
MaxRuns == 2
\* direct update_subprocess_env() calls in one behaviour
MaxSyncs == 2
\* direct terminate() calls in one behaviour
MaxTerminates == 1
\* changes of os.environ in one behaviour
MaxEnvChanges == 1

\* lines a child emits in one burst, ahead of the caller
MaxBurst == 3

(***************************************************************************)
(* Text.                                                                    *)
(***************************************************************************)
\* Python's None where a number is expected (a payload is never negative)
None == 0 - 1

\* Python's None where a line is expected (a line holds single characters)
NoLine == <<"<None>">>

NL == <<"\n">>

\* "##active_line"
ACTIVE_LINE_PREFIX == <<"#","#","a","c","t","i","v","e","_","l","i","n","e">>

\* "##"
HASHES == <<"#","#">>

\* "##end_of_execution##"
END_OF_EXECUTION ==
    <<"#","#","e","n","d","_","o","f","_","e","x","e","c","u","t","i","o","n","#","#">>

\* "KeyboardInterrupt"
KEYBOARD_INTERRUPT ==
    <<"K","e","y","b","o","a","r","d","I","n","t","e","r","r","u","p","t">>

\* "Maximum retries reached. Could not execute code."
MAX_RETRIES_MSG ==
    <<"M","a","x","i","m","u","m"," ","r","e","t","r","i","e","s"," ","r","e","a","c","h","e","d","."," ","C","o","u","l","d"," ","n","o","t"," ","e","x","e","c","u","t","e"," ","c","o","d","e",".">>

\* the "Retrying... (n/3)\nRestarting process." diagnostic; the traceback
\* text in front of it is not modelled
RETRYING_MSG ==
    <<"R","e","t","r","y","i","n","g",".",".",".","\n","R","e","s","t","a","r","t","i","n","g"," ","p","r","o","c","e","s","s",".">>

\* traceback.format_exc(): the failure detail of a setup failure
TRACEBACK_MSG == <<"T","r","a","c","e","b","a","c","k">>

Digits == {"0","1","2","3","4","5","6","7","8","9"}

DigitVal(c) ==
    CASE c = "0" -> 0 [] c = "1" -> 1 [] c = "2" -> 2 [] c = "3" -> 3
      [] c = "4" -> 4 [] c = "5" -> 5 [] c = "6" -> 6 [] c = "7" -> 7
      [] c = "8" -> 8 [] c = "9" -> 9

\* Python's str.strip() with no argument removes these
Whitespace == {" ", "\n", "\t", "\r"}

\* sub occurs in s at index i
OccursAt(s, sub, i) ==
    /\ i >= 1
    /\ i + Len(sub) - 1 <= Len(s)
    /\ SubSeq(s, i, i + Len(sub) - 1) = sub

\* Python's `sub in s`
Contains(s, sub) == \E i \in 1..Len(s) : OccursAt(s, sub, i)

\* length of the run of digits of s that starts at index i
RECURSIVE DigitRun(_, _)
DigitRun(s, i) ==
    IF i <= Len(s) /\ s[i] \in Digits THEN 1 + DigitRun(s, i + 1) ELSE 0

\* The regular expression ##active_line\d+## matched at index i of s: the
\* index of the last character of the match, 0 when there is no match.
\* '#' is no digit, so the greedy \d+ takes the whole run of digits.
ActiveMatchEnd(s, i) ==
    IF ~OccursAt(s, ACTIVE_LINE_PREFIX, i) THEN 0
    ELSE LET d == i + Len(ACTIVE_LINE_PREFIX)
             n == DigitRun(s, d)
         IN IF n >= 1 /\ OccursAt(s, HASHES, d + n) THEN d + n + 1 ELSE 0

\* the decimal value of the digits s[i..j]
RECURSIVE DecimalValue(_, _, _)
DecimalValue(s, i, j) ==
    IF j < i THEN 0 ELSE 10 * DecimalValue(s, i, j - 1) + DigitVal(s[j])

\* re.sub(r"##active_line\d+##", "", s), from index i on: the leftmost
\* matches are removed, scanning left to right without overlap
RECURSIVE ReSubActiveFrom(_, _)
ReSubActiveFrom(s, i) ==
    IF i > Len(s) THEN <<>>
    ELSE LET e == ActiveMatchEnd(s, i)
         IN IF e > 0 THEN ReSubActiveFrom(s, e + 1)
            ELSE <<s[i]>> \o ReSubActiveFrom(s, i + 1)

\* a bug: everything up to and including the marker is dropped
ReSubActive_DropsPrefix(s) ==
    LET starts == {i \in 1..Len(s) : ActiveMatchEnd(s, i) > 0}
    IN IF starts = {} THEN s
       ELSE LET i == CHOOSE k \in starts : \A m \in starts : k <= m
            IN ReSubActiveFrom(s, i)

ReSubActive(s) == ReSubActiveFrom(s, 1)

\* s.replace(tok, ""), from index i on
RECURSIVE ReplaceFrom(_, _, _)
ReplaceFrom(s, tok, i) ==
    IF i > Len(s) THEN <<>>
    ELSE IF OccursAt(s, tok, i) THEN ReplaceFrom(s, tok, i + Len(tok))
    ELSE <<s[i]>> \o ReplaceFrom(s, tok, i + 1)

Replace(s, tok) == ReplaceFrom(s, tok, 1)

RECURSIVE LStrip(_)
LStrip(s) ==
    IF s # <<>> /\ Head(s) \in Whitespace THEN LStrip(Tail(s)) ELSE s

RECURSIVE RStrip(_)
RStrip(s) ==
    IF s # <<>> /\ s[Len(s)] \in Whitespace
    THEN RStrip(SubSeq(s, 1, Len(s) - 1)) ELSE s

\* s.strip()
Strip(s) == RStrip(LStrip(s))

(***************************************************************************)
(* The per-language hooks.  The base class of the source returns None from  *)
(* both detectors (no marker is ever seen); the shells that subclass it are *)
(* not part of the source at hand, so the two detectors follow the marker   *)
(* text protocol of the specification: ##active_line<digits>## and          *)
(* ##end_of_execution##.                                                    *)
(***************************************************************************)
\* the payload of the first active-line token of the line, or None
detect_active_line(line) ==
    LET starts == {i \in 1..Len(line) : ActiveMatchEnd(line, i) > 0}
    IN IF starts = {} THEN None
       ELSE LET i == CHOOSE k \in starts : \A m \in starts : k <= m
            IN DecimalValue(line, i + Len(ACTIVE_LINE_PREFIX),
                            ActiveMatchEnd(line, i) - Len(HASHES))

detect_end_of_execution(line) == Contains(line, END_OF_EXECUTION)

\* the base class keeps the line as it is
line_postprocessor(line) == line

\* the base class keeps the code as it is
preprocess_code(code) == code

\* Python's truth value of what detect_active_line returns (None or an int)
Truthy(v) == v # None /\ v # 0

(***************************************************************************)
(* Events.                                                                  *)
(***************************************************************************)
OutputEvent(content) ==
    [type |-> "console", format |-> "output", content |-> content]

ActiveLineEvent(n) ==
    [type |-> "console", format |-> "active_line", content |-> n]

IsOutput(e) == e.format = "output"

IsActive(e) == e.format = "active_line"

\* an output event with this content (the payload of an active_line event
\* is a number and is never compared with text)
IsOutputOf(e, content) == IsOutput(e) /\ e.content = content

IsActiveOf(e, n) == IsActive(e) /\ e.content = n

(***************************************************************************)
(* One iteration of the loop of handle_stream_output: the events the reader *)
(* puts in the queue for one line, in order, and whether it then sets the   *)
(* done-signal.                                                             *)
(***************************************************************************)
ActiveLineBranch(line) ==
    LET rest == ReSubActive(line)
    IN [events |-> <<ActiveLineEvent(detect_active_line(line))>>
                   \o (IF rest # <<>> THEN <<OutputEvent(rest)>> ELSE <<>>),
        setdone |-> FALSE]

EndOfExecutionBranch(line) ==
    LET rest == Strip(Replace(line, END_OF_EXECUTION))
    IN [events |-> IF rest # <<>> THEN <<OutputEvent(rest)>> ELSE <<>>,
        setdone |-> TRUE]

KeyboardInterruptBranch ==
    [events |-> <<OutputEvent(KEYBOARD_INTERRUPT)>>, setdone |-> TRUE]

HandleLine(raw, is_error_stream) ==
    LET line == line_postprocessor(raw)
    IN IF line = NoLine THEN [events |-> <<>>, setdone |-> FALSE]
       ELSE IF Truthy(detect_active_line(line)) THEN ActiveLineBranch(line)
       ELSE IF detect_end_of_execution(line) THEN EndOfExecutionBranch(line)
       ELSE IF is_error_stream /\ Contains(line, KEYBOARD_INTERRUPT)
            THEN KeyboardInterruptBranch
       ELSE [events |-> <<OutputEvent(line)>>, setdone |-> FALSE]

(***************************************************************************)
(* Lines.                                                                   *)
(***************************************************************************)
Segments ==
    { <<"x","=","1">>,
      <<" ","d","o","n","e">>,
      ACTIVE_LINE_PREFIX \o <<"3">> \o HASHES,
      ACTIVE_LINE_PREFIX \o <<"7">> \o HASHES,
      ACTIVE_LINE_PREFIX \o <<"1","2">> \o HASHES,
      END_OF_EXECUTION,
      KEYBOARD_INTERRUPT }

\* the texts made of at most n segments
RECURSIVE Texts(_)
Texts(n) ==
    IF n = 0 THEN {<<>>}
    ELSE LET shorter == Texts(n - 1)
         IN shorter \cup {t \o g : t \in shorter, g \in Segments}

\* What stream.readline returns before the end of the stream: a text and its
\* line terminator, or the unterminated last text of the stream.
AllLines ==
    {t \o NL : t \in Texts(MaxSegs)} \cup (Texts(MaxSegs) \ {<<>>})

\* The lines a child emits in the model of the whole session: one of each
\* branch of the reader, and one that carries both markers.
PlainLine == <<"a">> \o NL
MarkerLine == ACTIVE_LINE_PREFIX \o <<"3">> \o HASHES \o NL
EndLine == END_OF_EXECUTION \o NL
BothLine == ACTIVE_LINE_PREFIX \o <<"3">> \o HASHES \o END_OF_EXECUTION \o NL
InterruptLine == KEYBOARD_INTERRUPT \o NL
\* the last line of an execution that ends on the line of its output
AnswerLine == <<"a">> \o END_OF_EXECUTION \o NL

\* what a child writes to its stdout (FALSE) and to its stderr (TRUE)
ChildLines(is_error_stream) ==
    IF is_error_stream THEN {InterruptLine, PlainLine}
    ELSE {MarkerLine, EndLine, BothLine}

\* every line of the model
KnownLines ==
    AllLines \cup ChildLines(TRUE) \cup ChildLines(FALSE) \cup {AnswerLine}

\* HandleLine, tabulated over the lines of the model
Handled ==
    [line \in KnownLines |->
        [is_error_stream \in BOOLEAN |-> HandleLine(line, is_error_stream)]]

\* The code strings passed to run(): the session never looks into them, so
\* the calls of a behaviour are given different ones, in turn.
Codes == <<(<<"c","1">>), (<<"c","2">>)>>

(***************************************************************************)
(* Environments: os.environ and the snapshot env_vars, as functions from    *)
(* the variable names to their values (Unset: the name is not a key).       *)
(***************************************************************************)
Unset == "<unset>"

EnvKeys == {"A", "PYTHONIOENCODING"}

\* the order in which a dict of these keys is iterated
EnvKeyOrder == <<"A", "PYTHONIOENCODING">>

KeyText(k) ==
    CASE k = "A" -> <<"A">>
      [] k = "PYTHONIOENCODING" ->
           <<"P","Y","T","H","O","N","I","O","E","N","C","O","D","I","N","G">>

ValText(v) ==
    CASE v = "1" -> <<"1">>
      [] v = "2" -> <<"2">>
      [] v = "utf-8" -> <<"u","t","f","-","8">>

\* the environments of the calling process
OsEnvs ==
    {[A |-> a, PYTHONIOENCODING |-> p] : a \in {"1", "2"}, p \in {Unset, "utf-8"}}

\* {}
EmptyEnv == [k \in EnvKeys |-> Unset]

\* my_env = os.environ.copy(); my_env["PYTHONIOENCODING"] = "utf-8"
ChildEnv(environ) == [environ EXCEPT !["PYTHONIOENCODING"] = "utf-8"]

\* "export {key}='{value}'\n"
ExportStatement(k, v) ==
    <<"e","x","p","o","r","t"," ">> \o KeyText(k) \o <<"=","'">> \o ValText(v)
        \o <<"'","\n">>

\* the statements for the keys of current_env that are new or changed
RECURSIVE SyncCodeFrom(_, _, _)
SyncCodeFrom(current_env, snapshot, i) ==
    IF i > Len(EnvKeyOrder) THEN <<>>
    ELSE LET k == EnvKeyOrder[i]
         IN (IF current_env[k] # Unset /\ snapshot[k] # current_env[k]
             THEN ExportStatement(k, current_env[k]) ELSE <<>>)
            \o SyncCodeFrom(current_env, snapshot, i + 1)

SyncCode(current_env, snapshot) == SyncCodeFrom(current_env, snapshot, 1)

(***************************************************************************)
(* State.                                                                   *)
(***************************************************************************)
VARIABLES
    \* the session object
    name,           \* getattr(self, "name", None): "Shell" or another kind
    process,        \* self.process: 0 is None, g >= 1 is procs[g]
    env_vars,       \* self.env_vars
    output_queue,   \* self.output_queue: entries [ev, gen, err]
    done,           \* self.done
    \* the frame of the run() generator
    pc,             \* "idle": no call is in progress
    code,           \* the preprocessed code of the call
    retry_count,
    extra_i,        \* the index of the loop of line 143
    yielded,        \* what the call has yielded so far: entries [ev, gen, err]
    outcome,        \* how the last call ended: "returned" or "raised"
    \* the operating system
    os_environ,     \* os.environ
    procs,          \* every process launched so far, its pipes and its readers
    \* history
    cur_op,         \* the running or last call: [op, arg, env, writes]
    prev_op,        \* the call before it: [op, arg, env, outcome, aborted]
    terminate_raised, \* terminate() has raised to its caller
    restarts,       \* start_process() calls made by the retry loop of the call
    emit_log,       \* lines the current child emitted since the call's write
    budget          \* what is left of the bounds: [emit, runs, syncs, terms, envs]

vars ==
    <<name, process, env_vars, output_queue, done, pc, code, retry_count,
      extra_i, yielded, outcome, os_environ, procs, cur_op, prev_op,
      terminate_raised, restarts, emit_log, budget>>

session_vars == <<name, process, env_vars, output_queue, done>>

frame_vars == <<pc, code, retry_count, extra_i, yielded, outcome>>

history_vars == <<cur_op, prev_op, terminate_raised, restarts>>

\* max_retries of run()
max_retries == 3

\* range(3) of the drains made once the done-signal is seen
extra_drains == 3

\* where the call is in its drain loop
DrainPcs == {"drain_first", "drain_get", "drain_check", "drain_extra"}

\* the streams of a process, by is_error_stream
Streams == BOOLEAN

\* a reader thread that has just been started
NewReader == [setdone |-> FALSE]

\* a process that subprocess.Popen has just launched, and its two readers
NewProcess ==
    [alive |-> TRUE, stdin_closed |-> FALSE, stdout_closed |-> FALSE,
     pipe |-> [s \in Streams |-> <<>>],
     rd |-> [s \in Streams |-> NewReader]]

\* an event in the queue, with the reader that put it there
Queued(ev, g, s) == [ev |-> ev, gen |-> g, err |-> s]

\* an event that run() yields itself
Own(ev) == [ev |-> ev, gen |-> 0, err |-> FALSE]

NoOp ==
    [op |-> "none", arg |-> <<>>, env |-> EmptyEnv, outcome |-> "none",
     aborted |-> FALSE]

\* the session object after __init__, in the environment of its caller
Constructed ==
    /\ name \in {"Shell", "Other"}
    /\ process = 0
    /\ env_vars = EmptyEnv
    /\ output_queue = <<>>
    /\ done = FALSE
    /\ pc = "idle"
    /\ code = <<>>
    /\ retry_count = 0
    /\ extra_i = 0
    /\ yielded = <<>>
    /\ outcome = "none"
    /\ os_environ \in OsEnvs
    /\ procs = <<>>
    /\ cur_op = [op |-> "none", arg |-> <<>>, env |-> EmptyEnv, writes |-> <<>>]
    /\ prev_op = NoOp
    /\ terminate_raised = FALSE
    /\ restarts = 0
    /\ emit_log = <<>>

(***************************************************************************)
(* The child processes and the caller's environment.                        *)
(***************************************************************************)
\* The child of the session writes a line to its stdout or its stderr, once
\* it has been sent code.  (What it writes later, between two calls, is read
\* no sooner than a line that is written here and read late.)
ChildEmit(g, s, line) ==
    /\ g = process
    /\ procs[g].alive
    /\ pc \in DrainPcs
    /\ budget.emit > 0
    /\ procs' = [procs EXCEPT ![g].pipe[s] = Append(@, line)]
    /\ budget' = [budget EXCEPT !.emit = @ - 1]
    /\ emit_log' = Append(emit_log, [err |-> s, line |-> line,
                                     after_write |-> pc \in DrainPcs])
    /\ UNCHANGED <<session_vars, frame_vars, os_environ, history_vars>>

\* the child of the session exits: writes to its stdin fail from now on, and
\* its readers reach the end of their streams once the pipes are empty
ChildExit(g) ==
    /\ g = process
    /\ procs[g].alive
    /\ procs' = [procs EXCEPT ![g].alive = FALSE]
    /\ UNCHANGED <<session_vars, frame_vars, os_environ, history_vars,
                   emit_log, budget>>

\* the calling program changes its environment between two calls
EnvChange(e) ==
    /\ pc = "idle"
    /\ budget.envs > 0
    /\ e # os_environ
    /\ os_environ' = e
    /\ budget' = [budget EXCEPT !.envs = @ - 1]
    /\ UNCHANGED <<session_vars, frame_vars, procs, history_vars, emit_log>>

(***************************************************************************)
(* handle_stream_output: the reader thread of stream s of process g.        *)
(***************************************************************************)
\* the events of a line, as the reader g, s puts them in the queue
QueuedAll(events, g, s) ==
    [i \in 1..Len(events) |-> Queued(events[i], g, s)]

\* stream.readline returns a line and the reader puts its events in the
\* queue; the done-signal, when the line asks for it, is set in a later step
ReaderLine(g, s) ==
    /\ g \in 1..Len(procs)
    /\ ~procs[g].rd[s].setdone
    /\ procs[g].pipe[s] # <<>>
    /\ ~(s = FALSE /\ procs[g].stdout_closed)
    /\ \E h \in {Handled[Head(procs[g].pipe[s])][s]} :
           /\ output_queue' = output_queue \o QueuedAll(h.events, g, s)
           /\ procs' = [procs EXCEPT ![g].pipe[s] = Tail(@),
                                     ![g].rd[s].setdone = h.setdone]
    /\ UNCHANGED <<name, process, env_vars, done, frame_vars, os_environ,
                   history_vars, emit_log, budget>>

\* self.done.set()
ReaderSetDone(g, s) ==
    LET r == procs[g].rd[s]
    IN /\ g \in 1..Len(procs)
       /\ r.setdone
       /\ done' = TRUE
       /\ procs' = [procs EXCEPT ![g].rd[s].setdone = FALSE]
       /\ UNCHANGED <<name, process, env_vars, output_queue, frame_vars,
                      os_environ, history_vars, emit_log, budget>>

\* The thread of the reader is still able to act: it has a line to read or
\* the done-signal to set.  Otherwise it is blocked in readline for good, or
\* it has ended: readline returned "" at the end of the stream, or raised
\* ValueError on the stdout handle that terminate() closed.
ReaderCanAct(g, s) ==
    \/ procs[g].rd[s].setdone
    \/ procs[g].pipe[s] # <<>> /\ ~(s = FALSE /\ procs[g].stdout_closed)

(***************************************************************************)
(* terminate() and start_process().                                         *)
(***************************************************************************)
\* stdin.write and stdin.flush succeed on the process
Writable(p) == p.alive /\ ~p.stdin_closed

\* How terminate() can go on self.process: "none" (every call succeeds),
\* "signal" (process.terminate() raises: the signal is only sent to a child
\* that has not exited) or "close" (stdin.close() raises).
TerminateFailures ==
    {"none"}
        \cup (IF process # 0 /\ procs[process].alive THEN {"signal"} ELSE {})
        \cup (IF process # 0 /\ ~procs[process].stdin_closed
              THEN {"close"} ELSE {})

\* the processes after terminate(): a handle whose close() raised is closed
\* all the same, and the calls after the one that raised are not made; what
\* is left in the pipe of a closed stdout handle can no longer be read
TerminateEffect(fail) ==
    IF process = 0 \/ fail = "signal" THEN procs
    ELSE IF fail = "close" THEN [procs EXCEPT ![process].stdin_closed = TRUE]
    ELSE [procs EXCEPT ![process].stdin_closed = TRUE,
                       ![process].stdout_closed = TRUE,
                       ![process].pipe[FALSE] = <<>>]

\* start_process(): what it leaves behind, and whether it raised (in
\* terminate(), or in subprocess.Popen after env_vars was stored)
StartProcess(fail, launch_ok) ==
    LET ps == TerminateEffect(fail)
    IN IF fail # "none"
       THEN [raised |-> TRUE, in_terminate |-> TRUE, procs |-> ps,
             process |-> process, env_vars |-> env_vars]
       ELSE IF ~launch_ok
       THEN [raised |-> TRUE, in_terminate |-> FALSE, procs |-> ps,
             process |-> process, env_vars |-> ChildEnv(os_environ)]
       ELSE [raised |-> FALSE, in_terminate |-> FALSE,
             procs |-> Append(ps, NewProcess),
             process |-> Len(ps) + 1, env_vars |-> ChildEnv(os_environ)]

\* the record of a call that begins
BeginOp(op, arg, env) == [op |-> op, arg |-> arg, env |-> env, writes |-> <<>>]

\* the last event of the call is the one of line 127
Aborted ==
    /\ yielded # <<>>
    /\ IsOutputOf(yielded[Len(yielded)].ev, MAX_RETRIES_MSG)

\* what the history keeps of a call that is over: how it ended, and whether
\* it was a run() that gave up
Forget(o) ==
    [op |-> o.op, arg |-> o.arg, env |-> o.env, outcome |-> outcome,
     aborted |-> o.op = "run" /\ Aborted]

\* a write to the stdin of process g, as the history keeps it
Written(g, kind, data, ok) == [gen |-> g, kind |-> kind, data |-> data, ok |-> ok]

\* terminate(), called by the owner of the session between two run() calls
CallTerminate(fail) ==
    /\ pc = "idle"
    /\ budget.terms > 0
    /\ fail \in TerminateFailures
    /\ procs' = TerminateEffect(fail)
    /\ terminate_raised' = (terminate_raised \/ fail # "none")
    /\ outcome' = IF fail # "none" THEN "raised" ELSE "returned"
    /\ prev_op' = Forget(cur_op)
    /\ cur_op' = BeginOp("terminate", <<>>, os_environ)
    /\ budget' = [budget EXCEPT !.terms = @ - 1]
    /\ UNCHANGED <<session_vars, pc, code, retry_count, extra_i, yielded,
                   os_environ, restarts, emit_log>>

(***************************************************************************)
(* update_subprocess_env(current_env).                                      *)
(***************************************************************************)
\* what update_subprocess_env writes to stdin: nothing for a kind other than
\* Shell, else the statements and a newline, in one write
SyncWrite(current_env) ==
    IF name # "Shell" THEN <<>>
    ELSE <<SyncCode(current_env, env_vars) \o NL>>

\* update_subprocess_env, called directly
CallSync(current_env) ==
    LET w == SyncWrite(current_env)
        ok == process # 0 /\ Writable(procs[process])
    IN /\ pc = "idle"
       /\ budget.syncs > 0
       /\ prev_op' = Forget(cur_op)
       /\ cur_op' = [BeginOp("sync", <<>>, current_env) EXCEPT
                        !.writes = IF w # <<>> /\ process # 0
                                   THEN <<Written(process, "sync", w[1], ok)>>
                                   ELSE <<>>]
       /\ env_vars' = IF w # <<>> /\ ok THEN current_env ELSE env_vars
       /\ outcome' = IF w # <<>> /\ ~ok THEN "raised" ELSE "returned"
       /\ budget' = [budget EXCEPT !.syncs = @ - 1]
       /\ UNCHANGED <<name, process, output_queue, done, pc, code,
                      retry_count, extra_i, yielded, os_environ, procs,
                      terminate_raised, restarts, emit_log>>

(***************************************************************************)
(* run(code): the setup (lines 80 to 97).                                   *)
(***************************************************************************)
\* the call ends in the setup, with the failure detail as its one event
SetupFailed ==
    /\ yielded' = <<Own(OutputEvent(TRACEBACK_MSG))>>
    /\ pc' = "idle"
    /\ outcome' = "returned"
    /\ code' = <<>>

SetupDone(c) ==
    /\ yielded' = <<>>
    /\ pc' = "write"
    /\ outcome' = "none"
    /\ code' = preprocess_code(c)

\* the code of the next call
NextCode == Codes[(budget.runs % Len(Codes)) + 1]

BeginRun(c) ==
    /\ pc = "idle"
    /\ budget.runs > 0
    /\ c = NextCode
    /\ budget' = [budget EXCEPT !.runs = @ - 1]
    /\ prev_op' = Forget(cur_op)
    /\ retry_count' = 0
    /\ extra_i' = 0
    /\ restarts' = 0
    /\ emit_log' = <<>>
    /\ UNCHANGED <<name, output_queue, done, os_environ, terminate_raised>>

\* preprocess_code raises (a hook of a language may)
RunHookRaises(c) ==
    /\ BeginRun(c)
    /\ SetupFailed
    /\ cur_op' = BeginOp("run", c, os_environ)
    /\ UNCHANGED <<process, env_vars, procs>>

\* there is no process yet: start_process() launches the first one
RunFirstStart(c, launch_ok) ==
    LET sp == StartProcess("none", launch_ok)
    IN /\ BeginRun(c)
       /\ process = 0
       /\ procs' = sp.procs
       /\ process' = sp.process
       /\ env_vars' = sp.env_vars
       /\ cur_op' = BeginOp("run", c, os_environ)
       /\ IF sp.raised THEN SetupFailed ELSE SetupDone(c)

\* there is a process: the environment is compared with the snapshot and
\* update_subprocess_env is called when they differ
RunSetupSync(c) ==
    LET current_env == os_environ
        w == IF env_vars # current_env THEN SyncWrite(current_env) ELSE <<>>
        ok == Writable(procs[process])
    IN /\ BeginRun(c)
       /\ process # 0
       /\ cur_op' = [BeginOp("run", c, os_environ) EXCEPT
                        !.writes = IF w # <<>>
                                   THEN <<Written(process, "sync", w[1], ok)>>
                                   ELSE <<>>]
       /\ env_vars' = IF w # <<>> /\ ok THEN current_env ELSE env_vars
       /\ IF w # <<>> /\ ~ok THEN SetupFailed ELSE SetupDone(c)
       /\ UNCHANGED <<process, procs>>

(***************************************************************************)
(* run(code): the write-and-retry loop (lines 99 to 129).                   *)
(***************************************************************************)
\* the call returns or raises: its locals are gone
EndCall(how) ==
    /\ pc' = "idle"
    /\ outcome' = how
    /\ code' = <<>>
    /\ retry_count' = 0
    /\ extra_i' = 0

\* a bug: the diagnostic is shown from the first failure on
Diagnostic_Always(count) == <<Own(OutputEvent(RETRYING_MSG))>>

\* the diagnostic of a failed write: hidden when it is the first one
Diagnostic(count) ==
    IF count # 0 THEN <<Own(OutputEvent(RETRYING_MSG))>> ELSE <<>>

\* a bug: the bound is checked with >=
RetriesExhausted_OffByOne(count) == count >= max_retries

\* retry_count > max_retries, after the increment
RetriesExhausted(count) == count > max_retries

\* a bug: the newline is left out
CodeWrite_NoNewline(text) == text

\* what line 106 writes to stdin
CodeWrite(text) == text \o NL

\* self.done.clear(); the write and the flush succeed; break
RunWriteOk ==
    /\ pc = "write"
    /\ Writable(procs[process])
    /\ done' = FALSE
    /\ cur_op' = [cur_op EXCEPT !.writes =
                      Append(@, Written(process, "code", CodeWrite(code), TRUE))]
    /\ pc' = "drain_first"
    /\ emit_log' = <<>>
    /\ UNCHANGED <<name, process, env_vars, output_queue, code, retry_count,
                   extra_i, yielded, outcome, os_environ, procs, prev_op,
                   terminate_raised, restarts, budget>>

\* self.done.clear(); the write raises; the except clause runs: the
\* diagnostic, start_process(), the increment and the check of the bound
RunWriteFail(fail, launch_ok) ==
    LET sp == StartProcess(fail, launch_ok)
        shown == yielded \o Diagnostic(retry_count)
    IN /\ pc = "write"
       /\ ~Writable(procs[process])
       /\ fail \in TerminateFailures
       /\ done' = FALSE
       /\ cur_op' = [cur_op EXCEPT !.writes =
                         Append(@, Written(process, "code", CodeWrite(code), FALSE))]
       /\ procs' = sp.procs
       /\ process' = sp.process
       /\ env_vars' = sp.env_vars
       /\ terminate_raised' = (terminate_raised \/ sp.in_terminate)
       /\ restarts' = IF sp.raised THEN restarts ELSE restarts + 1
       /\ IF sp.raised
          THEN yielded' = shown /\ EndCall("raised")
          ELSE IF RetriesExhausted(retry_count + 1)
          THEN /\ yielded' = Append(shown, Own(OutputEvent(MAX_RETRIES_MSG)))
               /\ EndCall("returned")
          ELSE /\ yielded' = shown
               /\ retry_count' = retry_count + 1
               /\ UNCHANGED <<pc, code, extra_i, outcome>>
       /\ UNCHANGED <<name, output_queue, os_environ, prev_op, emit_log, budget>>

(***************************************************************************)
(* run(code): the drain loop (lines 131 to 147).                            *)
(***************************************************************************)
\* a bug: the newest event of the queue is taken, not the oldest
YieldHead_TakesLast ==
    /\ yielded' = Append(yielded, output_queue[Len(output_queue)])
    /\ output_queue' = SubSeq(output_queue, 1, Len(output_queue) - 1)

\* yield self.output_queue.get()
YieldHead ==
    /\ yielded' = Append(yielded, Head(output_queue))
    /\ output_queue' = Tail(output_queue)

\* line 132: an event that is there is yielded, else the call sleeps
DrainFirst ==
    /\ pc = "drain_first"
    /\ IF output_queue # <<>> THEN YieldHead
       ELSE UNCHANGED <<yielded, output_queue>>
    /\ pc' = "drain_get"
    /\ UNCHANGED <<name, process, env_vars, done, code, retry_count, extra_i,
                   outcome, os_environ, procs, history_vars, emit_log, budget>>

\* line 137: get(timeout=0.3) returns an event, which is yielded
DrainGet ==
    /\ pc = "drain_get"
    /\ output_queue # <<>>
    /\ YieldHead
    /\ pc' = "drain_first"
    /\ UNCHANGED <<name, process, env_vars, done, code, retry_count, extra_i,
                   outcome, os_environ, procs, history_vars, emit_log, budget>>

\* line 139: the queue stayed empty and get raises queue.Empty
DrainTimeout ==
    /\ pc = "drain_get"
    /\ output_queue = <<>>
    /\ pc' = "drain_check"
    /\ UNCHANGED <<session_vars, code, retry_count, extra_i, yielded, outcome,
                   os_environ, procs, history_vars, emit_log, budget>>

\* line 140: if self.done.is_set()
DrainCheck ==
    /\ pc = "drain_check"
    /\ pc' = IF done THEN "drain_extra" ELSE "drain_first"
    /\ extra_i' = 0
    /\ UNCHANGED <<session_vars, code, retry_count, yielded, outcome,
                   os_environ, procs, history_vars, emit_log, budget>>

\* lines 143 to 146: one of the three last looks at the queue
DrainExtra ==
    /\ pc = "drain_extra"
    /\ extra_i < extra_drains
    /\ IF output_queue # <<>> THEN YieldHead
       ELSE UNCHANGED <<yielded, output_queue>>
    /\ extra_i' = extra_i + 1
    /\ UNCHANGED <<name, process, env_vars, done, pc, code, retry_count,
                   outcome, os_environ, procs, history_vars, emit_log, budget>>

\* line 147: break, and the call returns
DrainReturn ==
    /\ pc = "drain_extra"
    /\ extra_i = extra_drains
    /\ EndCall("returned")
    /\ UNCHANGED <<session_vars, yielded, os_environ, procs, history_vars,
                   emit_log, budget>>

(***************************************************************************)
(* The threads.                                                             *)
(***************************************************************************)
Gens == 1..Len(procs)

\* the thread of the caller, inside run()
Driver ==
    \/ RunWriteOk
    \/ \E fail \in {"none", "signal", "close"}, launch_ok \in BOOLEAN :
           RunWriteFail(fail, launch_ok)
    \/ DrainFirst
    \/ DrainGet
    \/ DrainTimeout
    \/ DrainCheck
    \/ DrainExtra
    \/ DrainReturn

\* the reader thread of stream s of process g
Reader(g, s) ==
    \/ ReaderLine(g, s)
    \/ ReaderSetDone(g, s)

Readers == \E g \in Gens, s \in Streams : Reader(g, s)

\* run() is called
RunCalled ==
    \/ \E c \in {NextCode} : RunHookRaises(c)
    \/ \E c \in {NextCode}, launch_ok \in BOOLEAN : RunFirstStart(c, launch_ok)
    \/ \E c \in {NextCode} : RunSetupSync(c)

(***************************************************************************)
(* Spec: a session that is called several times, whose children emit lines  *)
(* of each kind and exit, and whose launches and terminate() calls can fail.*)
(***************************************************************************)
Init ==
    /\ Constructed
    /\ name = "Other"
    /\ os_environ = [A |-> "1", PYTHONIOENCODING |-> Unset]
    /\ budget = [emit |-> MaxEmit, runs |-> MaxRuns, syncs |-> 0,
                 terms |-> MaxTerminates, envs |-> 0]

Next ==
    \/ RunCalled
    \/ \E fail \in {"none", "signal", "close"} : CallTerminate(fail)
    \/ Driver
    \/ Readers
    \/ \E g \in Gens, s \in Streams : \E line \in ChildLines(s) :
           ChildEmit(g, s, line)
    \/ \E g \in Gens : ChildExit(g)

Spec == Init /\ [][Next]_vars

(***************************************************************************)
(* SpecRetry: one run() call on a new session whose children emit lines and *)
(* exit, so that writes fail and the call restarts the process; a launch    *)
(* and a terminate() call can fail.                                         *)
(***************************************************************************)
InitRetry ==
    /\ Constructed
    /\ name = "Other"
    /\ os_environ = [A |-> "1", PYTHONIOENCODING |-> Unset]
    /\ budget = [emit |-> MaxEmit, runs |-> 1, syncs |-> 0, terms |-> 0,
                 envs |-> 0]

NextRetry ==
    \/ \E c \in {NextCode}, launch_ok \in BOOLEAN : RunFirstStart(c, launch_ok)
    \/ Driver
    \/ Readers
    \/ \E g \in Gens, s \in Streams : \E line \in ChildLines(s) :
           ChildEmit(g, s, line)
    \/ \E g \in Gens : ChildExit(g)

SpecRetry == InitRetry /\ [][NextRetry]_vars

(***************************************************************************)
(* SpecReuse: run() calls one after the other on one session whose children *)
(* emit lines and exit; every launch and every terminate() call succeeds.   *)
(***************************************************************************)
InitReuse ==
    /\ Constructed
    /\ name = "Other"
    /\ os_environ = [A |-> "1", PYTHONIOENCODING |-> Unset]
    /\ budget = [emit |-> MaxEmit, runs |-> MaxRuns, syncs |-> 0, terms |-> 0,
                 envs |-> 0]

NextReuse ==
    \/ \E c \in {NextCode} : RunFirstStart(c, TRUE)
    \/ \E c \in {NextCode} : RunSetupSync(c)
    \/ RunWriteOk
    \/ RunWriteFail("none", TRUE)
    \/ DrainFirst
    \/ DrainGet
    \/ DrainTimeout
    \/ DrainCheck
    \/ DrainExtra
    \/ DrainReturn
    \/ Readers
    \/ \E g \in Gens, s \in Streams : \E line \in ChildLines(s) :
           ChildEmit(g, s, line)
    \/ \E g \in Gens : ChildExit(g)

SpecReuse == InitReuse /\ [][NextReuse]_vars

(***************************************************************************)
(* SpecRace: one run() call on a new session whose child writes a burst of  *)
(* lines to its stdout: active-line markers, and output that ends with the  *)
(* end-of-execution marker.                                                 *)
(***************************************************************************)
InitRace ==
    /\ Constructed
    /\ name = "Other"
    /\ os_environ = [A |-> "1", PYTHONIOENCODING |-> Unset]
    /\ budget = [emit |-> MaxBurst, runs |-> 1, syncs |-> 0, terms |-> 0,
                 envs |-> 0]

NextRace ==
    \/ \E c \in {NextCode} : RunFirstStart(c, TRUE)
    \/ RunWriteOk
    \/ DrainFirst
    \/ DrainGet
    \/ DrainTimeout
    \/ DrainCheck
    \/ DrainExtra
    \/ DrainReturn
    \/ Readers
    \/ \E g \in Gens : \E line \in {MarkerLine, AnswerLine} :
           ChildEmit(g, FALSE, line)

SpecRace == InitRace /\ [][NextRace]_vars

(***************************************************************************)
(* SpecLine: one run() call on a new session whose child emits one line,    *)
(* any of AllLines, on either stream.  The threads are scheduled fairly.    *)
(***************************************************************************)
InitLine ==
    /\ Constructed
    /\ name = "Other"
    /\ os_environ = [A |-> "1", PYTHONIOENCODING |-> Unset]
    /\ budget = [emit |-> 1, runs |-> 1, syncs |-> 0, terms |-> 0, envs |-> 0]

NextLine ==
    \/ \E c \in {NextCode} : RunFirstStart(c, TRUE)
    \/ RunWriteOk
    \/ DrainFirst
    \/ DrainGet
    \/ DrainTimeout
    \/ DrainCheck
    \/ DrainExtra
    \/ DrainReturn
    \/ Readers
    \/ /\ budget.emit > 0
       /\ process \in Gens
       /\ \E s \in Streams, line \in AllLines : ChildEmit(process, s, line)

SpecLine ==
    /\ InitLine
    /\ [][NextLine]_vars
    /\ WF_vars(Driver)
    /\ \A s \in Streams : WF_vars(Reader(1, s))

(***************************************************************************)
(* SpecEnv: a session of either kind whose caller changes its environment,  *)
(* calls run() and update_subprocess_env(), and whose child answers with    *)
(* its output and the end-of-execution marker, or exits.                   *)
(***************************************************************************)
InitEnv ==
    /\ Constructed
    /\ budget = [emit |-> MaxRuns, runs |-> MaxRuns, syncs |-> MaxSyncs,
                 terms |-> 0, envs |-> MaxEnvChanges]

NextEnv ==
    \/ \E c \in {NextCode} : RunFirstStart(c, TRUE)
    \/ \E c \in {NextCode} : RunSetupSync(c)
    \/ \E e \in OsEnvs : CallSync(e)
    \/ \E e \in OsEnvs : EnvChange(e)
    \/ RunWriteOk
    \/ RunWriteFail("none", TRUE)
    \/ DrainFirst
    \/ DrainGet
    \/ DrainTimeout
    \/ DrainCheck
    \/ DrainExtra
    \/ DrainReturn
    \/ Readers
    \/ \E g \in Gens : ChildEmit(g, FALSE, AnswerLine)
    \/ \E g \in Gens : ChildExit(g)

SpecEnv == InitEnv /\ [][NextEnv]_vars

(***************************************************************************)
(* Properties of the reader, under SpecLine.                                *)
(***************************************************************************)
\* every event the readers have produced so far, in the order of the queue
AllEvents == yielded \o output_queue

\* the last line a child emitted
LastEmitted == emit_log[Len(emit_log)]

\* the one line of SpecLine has been emitted and its reader has handled it
LineConsumed ==
    /\ emit_log # <<>>
    /\ procs[1].pipe[LastEmitted.err] = <<>>
    /\ ~procs[1].rd[LastEmitted.err].setdone

\* the text holds an active-line token or the end-of-execution token
HasMarkerToken(text) ==
    \/ Contains(text, END_OF_EXECUTION)
    \/ \E i \in 1..Len(text) : ActiveMatchEnd(text, i) > 0

\* the bare active-line markers of the model, with their payloads
BareMarkers ==
    { [text |-> ACTIVE_LINE_PREFIX \o <<"3">> \o HASHES, n |-> 3],
      [text |-> ACTIVE_LINE_PREFIX \o <<"7">> \o HASHES, n |-> 7],
      [text |-> ACTIVE_LINE_PREFIX \o <<"1","2">> \o HASHES, n |-> 12] }

\* 'x=1##active_line3## done'
Line9 ==
    <<"x","=","1">> \o ACTIVE_LINE_PREFIX \o <<"3">> \o HASHES
        \o <<" ","d","o","n","e">>

\* C1: once run(c) has written c and the last line the child emitted carries
\* the end-of-execution marker, the call eventually returns.
C1_RunReturns ==
    (/\ pc \in DrainPcs
     /\ emit_log # <<>>
     /\ Contains(LastEmitted.line, END_OF_EXECUTION))
        ~> (pc = "idle")

\* C2: no output event that run yields has a content that holds an
\* active-line token or the end-of-execution token.
C2_NoMarkerInContent ==
    \A i \in 1..Len(yielded) :
        IsOutput(yielded[i].ev) => ~HasMarkerToken(yielded[i].ev.content)

\* C7: a stderr line that holds KeyboardInterrupt, with no end-of-execution
\* marker ever emitted, makes the call return after it has yielded the
\* output event KeyboardInterrupt; a stdout line does not end the call.
C7_InterruptEndsCall ==
    /\ (/\ pc \in DrainPcs
        /\ emit_log # <<>>
        /\ LastEmitted.err
        /\ Contains(LastEmitted.line, KEYBOARD_INTERRUPT)
        /\ ~Contains(LastEmitted.line, END_OF_EXECUTION))
           ~> (/\ pc = "idle"
               /\ \E i \in 1..Len(yielded) :
                      IsOutputOf(yielded[i].ev, KEYBOARD_INTERRUPT))
    /\ [](/\ emit_log # <<>>
          /\ ~LastEmitted.err
          /\ Contains(LastEmitted.line, KEYBOARD_INTERRUPT)
          /\ ~Contains(LastEmitted.line, END_OF_EXECUTION)
          => pc \in DrainPcs /\ ~done)

\* C8: a line that is an active-line marker and its line terminator, once
\* consumed, has produced one active_line event with the payload of the
\* marker and no output event.
C8_BareMarkerLine ==
    \A m \in BareMarkers :
        LineConsumed /\ LastEmitted.line = m.text \o NL
            => /\ Len(AllEvents) = 1
               /\ IsActiveOf(AllEvents[1].ev, m.n)

\* C9, as the specification states it: the line 'x=1##active_line3## done'
\* produces active_line 3 and then the output event ' done'.
C9_Original ==
    LineConsumed /\ LastEmitted.line = Line9
        => /\ Len(AllEvents) = 2
           /\ IsActiveOf(AllEvents[1].ev, 3)
           /\ IsOutputOf(AllEvents[2].ev, <<" ","d","o","n","e">>)

\* C9, amended: the line 'x=1##active_line3## done' produces active_line 3
\* and then one output event whose content is the line without the marker,
\* 'x=1 done' (with the line terminator, when the line has one).
C9_MarkerExcised ==
    \A eol \in {<<>>, NL} :
        LineConsumed /\ LastEmitted.line = Line9 \o eol
            => /\ Len(AllEvents) = 2
               /\ IsActiveOf(AllEvents[1].ev, 3)
               /\ IsOutputOf(AllEvents[2].ev,
                             <<"x","=","1"," ","d","o","n","e">> \o eol)

\* the reader has consumed 'x=1##active_line3## done' and the call has
\* yielded the two events
C9_Witness ==
    /\ LineConsumed
    /\ LastEmitted.line = Line9
    /\ Len(yielded) = 2
    /\ IsOutput(yielded[2].ev)

(***************************************************************************)
(* Properties of the write-and-retry loop, under SpecRetry, and of          *)
(* terminate(), under Spec.                                                 *)
(***************************************************************************)
IsCodeWrite(w) == w.kind = "code"

\* the writes of code the running or last call has made, in order
CodeWrites == SelectSeq(cur_op.writes, IsCodeWrite)

\* the call is a run() whose write failed on attempts 1 and 2 and succeeded
\* on attempt 3
FailsTwiceThenWrites ==
    /\ cur_op.op = "run"
    /\ Len(CodeWrites) >= 3
    /\ ~CodeWrites[1].ok
    /\ ~CodeWrites[2].ok
    /\ CodeWrites[3].ok

\* the events of the queue entries q that reader g, s has put there
RECURSIVE EventsFrom(_, _, _)
EventsFrom(q, g, s) ==
    IF q = <<>> THEN <<>>
    ELSE (IF Head(q).gen = g /\ Head(q).err = s THEN <<Head(q).ev>> ELSE <<>>)
             \o EventsFrom(Tail(q), g, s)

\* the lines of the log that were emitted on stream s
RECURSIVE EmittedOn(_, _)
EmittedOn(log, s) ==
    IF log = <<>> THEN <<>>
    ELSE (IF Head(log).err = s THEN <<Head(log).line>> ELSE <<>>)
             \o EmittedOn(Tail(log), s)

\* the lines the reader of stream s of the current process has read
ReadOn(s) ==
    SubSeq(EmittedOn(emit_log, s), 1,
           Len(EmittedOn(emit_log, s)) - Len(procs[process].pipe[s]))

\* the events of the lines, in order
RECURSIVE EventsOfLines(_, _)
EventsOfLines(lines, s) ==
    IF lines = <<>> THEN <<>>
    ELSE HandleLine(Head(lines), s).events \o EventsOfLines(Tail(lines), s)

\* C3: a run() whose write fails on attempts 1 and 2 and succeeds on attempt
\* 3 has restarted the process exactly twice, has written its preprocessed
\* code and a newline to each process and last to the third one, makes no
\* further write, is in its drain loop or has returned from it, and the
\* events of every line the third process has produced and its readers have
\* read are yielded or wait in the queue, in the order of the lines.
C3_TwoRestartsThenOutput ==
    FailsTwiceThenWrites =>
        /\ Len(CodeWrites) = 3
        /\ restarts = 2
        /\ CodeWrites[2].gen = CodeWrites[1].gen + 1
        /\ CodeWrites[3].gen = CodeWrites[1].gen + 2
        /\ process = CodeWrites[3].gen
        /\ \A i \in 1..3 :
               CodeWrites[i].data = preprocess_code(cur_op.arg) \o NL
        /\ pc \in DrainPcs \/ (pc = "idle" /\ outcome = "returned")
        /\ \A s \in Streams :
               EventsFrom(AllEvents, process, s) = EventsOfLines(ReadOn(s), s)

\* the call that wrote at its third attempt has returned and has yielded an
\* output event of the third process
C3_Witness ==
    /\ FailsTwiceThenWrites
    /\ pc = "idle"
    /\ outcome = "returned"
    /\ \E i \in 1..Len(yielded) :
           /\ yielded[i].gen = process
           /\ IsOutput(yielded[i].ev)

\* C4: a run() whose write has failed four times in a row has ended by
\* returning, its last event is 'Maximum retries reached. Could not execute
\* code.', and it has made no fifth write and has not entered the drain loop.
C4_AbortsAfterFourFailures ==
    (/\ cur_op.op = "run"
     /\ Len(CodeWrites) >= 4
     /\ \A i \in 1..4 : ~CodeWrites[i].ok)
        => /\ Len(CodeWrites) = 4
           /\ pc = "idle"
           /\ outcome = "returned"
           /\ yielded # <<>>
           /\ IsOutputOf(yielded[Len(yielded)].ev, MAX_RETRIES_MSG)

\* C10: terminate() never raises to its caller.
C10_TerminateNeverRaises == ~terminate_raised

(***************************************************************************)
(* Properties of the environment synchronisation, under SpecEnv.            *)
(***************************************************************************)
\* C5: the second of two consecutive run() calls made in the same
\* environment writes nothing to stdin but its own code and a newline.
C5_NoSyncOnSecondRun ==
    (/\ prev_op.op = "run"
     /\ cur_op.op = "run"
     /\ prev_op.env = cur_op.env)
        => \A i \in 1..Len(cur_op.writes) :
               /\ cur_op.writes[i].kind = "code"
               /\ cur_op.writes[i].data = preprocess_code(cur_op.arg) \o NL

\* C6: the second of two consecutive update_subprocess_env(env) calls with
\* the same env, the first of which returned, writes nothing to stdin.
C6_SecondSyncWritesNothing ==
    (/\ prev_op.op = "sync"
     /\ prev_op.outcome = "returned"
     /\ cur_op.op = "sync"
     /\ prev_op.env = cur_op.env)
        => cur_op.writes = <<>>

(***************************************************************************)
(* Properties of the failures of a launch, under SpecRetry.                 *)
(***************************************************************************)
\* The last start_process() of the one call of SpecRetry raised in
\* subprocess.Popen: no process was ever installed, or the process of the
\* session is one that terminate() has closed and that was not replaced.
LaunchFailed ==
    /\ cur_op.op = "run"
    /\ process = 0 \/ procs[process].stdout_closed

\* C11: a run() in which a process launch raised has ended by returning, its
\* last event is the output event with the failure detail, which it has
\* yielded once, and it has written its code to no process.
C11_LaunchFailureReported ==
    LaunchFailed =>
        /\ pc = "idle"
        /\ outcome = "returned"
        /\ yielded # <<>>
        /\ IsOutputOf(yielded[Len(yielded)].ev, TRACEBACK_MSG)
        /\ \A i \in 1..(Len(yielded) - 1) :
               ~IsOutputOf(yielded[i].ev, TRACEBACK_MSG)
        /\ \A i \in 1..Len(cur_op.writes) : ~cur_op.writes[i].ok

(***************************************************************************)
(* Properties of a call on a session whose child has died, under SpecEnv.   *)
(***************************************************************************)
\* The call is a run() that has ended, whose first write to stdin failed
\* because the child had died, and every process launched since is alive.
DiedBeforeCall ==
    /\ cur_op.op = "run"
    /\ pc = "idle"
    /\ cur_op.writes # <<>>
    /\ ~cur_op.writes[1].ok
    /\ \A g \in Gens : g > cur_op.writes[1].gen => procs[g].alive

\* C12: a run(c) on a session whose child has died, with launches that
\* succeed, has written c and a newline to a new process.
C12_RequestNotLost ==
    DiedBeforeCall =>
        \E i \in 1..Len(cur_op.writes) :
            /\ cur_op.writes[i].kind = "code"
            /\ cur_op.writes[i].ok
            /\ cur_op.writes[i].gen > cur_op.writes[1].gen
            /\ cur_op.writes[i].data = preprocess_code(cur_op.arg) \o NL

(***************************************************************************)
(* Properties of the order of the events, under SpecRetry.                  *)
(***************************************************************************)
\* the same event (the format decides how the contents compare)
SameEvent(a, b) == a.format = b.format /\ a.content = b.content

\* the same queue entry
SameEntry(p, q) == p.gen = q.gen /\ p.err = q.err /\ SameEvent(p.ev, q.ev)

\* the events a are the first events of b
EventPrefix(a, b) ==
    /\ Len(a) <= Len(b)
    /\ \A i \in 1..Len(a) : SameEvent(a[i], b[i])

\* the entries of p, then k more
EntriesExtend(p, q) ==
    /\ Len(p) <= Len(q)
    /\ \A i \in 1..Len(p) : SameEntry(p[i], q[i])

\* the step takes the head of the queue and yields it
HeadDelivered ==
    /\ output_queue # <<>>
    /\ Len(output_queue') = Len(output_queue) - 1
    /\ \A i \in 1..Len(output_queue') :
           SameEntry(output_queue'[i], output_queue[i + 1])
    /\ Len(yielded') = Len(yielded) + 1
    /\ SameEntry(yielded'[Len(yielded')], Head(output_queue))
    /\ EntriesExtend(yielded, yielded')

\* C13: the events of each stream of the process are yielded in the order
\* of the lines of that stream, and the queue is first-in first-out: a step
\* that changes it either adds entries at its tail or takes its head, which
\* is the next event the call yields.
C13_OrderPreserved ==
    /\ [](process # 0 =>
            \A s \in Streams :
                EventPrefix(EventsFrom(yielded, process, s),
                            EventsOfLines(EmittedOn(emit_log, s), s)))
    /\ [][output_queue' # output_queue =>
            \/ HeadDelivered
            \/ /\ EntriesExtend(output_queue, output_queue')
               /\ Len(output_queue') > Len(output_queue)
               /\ yielded' = yielded]_vars

\* two lines of stdout have been emitted and events of both were yielded
C13_Witness ==
    /\ process # 0
    /\ Len(EmittedOn(emit_log, FALSE)) = 2
    /\ Len(EventsFrom(yielded, process, FALSE)) >= 3

(***************************************************************************)
(* Properties of a call that follows an aborted call, under SpecReuse.      *)
(***************************************************************************)
IsFailedCodeWrite(w) == w.kind = "code" /\ ~w.ok

\* the writes of code of the running or last call that failed
FailedCodeWrites == SelectSeq(cur_op.writes, IsFailedCodeWrite)

\* the call is a run() that follows a run() that gave up
AfterAbort ==
    /\ prev_op.op = "run"
    /\ prev_op.aborted
    /\ cur_op.op = "run"

\* C14: in a run() that follows an aborted run(), the retry counter counts
\* the failed writes of this call only, so the call gives up only after four
\* failures of its own; when its first write succeeds, that write carries
\* its code and a newline to the process of the session, nothing is
\* restarted, no diagnostic is yielded, and the call is in its drain loop or
\* has returned.
C14_ReusableAfterAbort ==
    AfterAbort =>
        /\ pc # "idle" => retry_count = Len(FailedCodeWrites)
        /\ Aborted => Len(FailedCodeWrites) = max_retries + 1
        /\ (CodeWrites # <<>> /\ CodeWrites[1].ok) =>
               /\ Len(CodeWrites) = 1
               /\ CodeWrites[1].gen = process
               /\ CodeWrites[1].data = preprocess_code(cur_op.arg) \o NL
               /\ restarts = 0
               /\ \A i \in 1..Len(yielded) : yielded[i].gen # 0
               /\ pc \in DrainPcs \/ (pc = "idle" /\ outcome = "returned")

\* the call that follows an aborted call wrote its code at once, yielded an
\* event of its process and returned
C14_Witness ==
    /\ AfterAbort
    /\ CodeWrites # <<>>
    /\ CodeWrites[1].ok
    /\ pc = "idle"
    /\ outcome = "returned"
    /\ \E i \in 1..Len(yielded) : yielded[i].gen = process

(***************************************************************************)
(* Properties of the last drains of a call, under SpecRace.                 *)
(***************************************************************************)
\* the lines up to and with the first one that makes the reader of stream s
\* set the done-signal
RECURSIVE LinesUntilDone(_, _)
LinesUntilDone(lines, s) ==
    IF lines = <<>> THEN <<>>
    ELSE IF HandleLine(Head(lines), s).setdone THEN <<Head(lines)>>
    ELSE <<Head(lines)>> \o LinesUntilDone(Tail(lines), s)

\* the run() call wrote its code and has returned from its drain loop
ReturnedFromDrain ==
    /\ cur_op.op = "run"
    /\ pc = "idle"
    /\ outcome = "returned"
    /\ CodeWrites # <<>>
    /\ CodeWrites[Len(CodeWrites)].ok

\* C15: a call that has returned from its drain loop has yielded every
\* event that the stdout reader put in the queue before it set the
\* done-signal: the events of the lines up to and with the marker line.
C15_NoOutputLost ==
    ReturnedFromDrain =>
        Len(EventsFrom(yielded, process, FALSE))
            >= Len(EventsOfLines(
                       LinesUntilDone(EmittedOn(emit_log, FALSE), FALSE),
                       FALSE))

(***************************************************************************)
(* Properties of the readers and of what one call leaves to the next,       *)
(* under SpecReuse.                                                         *)
(***************************************************************************)
\* C16: no reader of a process that was replaced is still able to put an
\* event in the queue or to set the done-signal.
C16_NoStaleReader ==
    \A g \in Gens, s \in Streams : g # process => ~ReaderCanAct(g, s)

(***************************************************************************)
(* Properties of the number of restarts and of the diagnostics, under       *)
(* SpecRetry.                                                               *)
(***************************************************************************)
\* C17: the retry loop of one run() call restarts the process at most
\* max_retries times.
C17_AtMostThreeRestarts == restarts <= max_retries

IsDiagnostic(q) == q.gen = 0 /\ IsOutputOf(q.ev, RETRYING_MSG)

\* the diagnostics the call has yielded
Diagnostics == SelectSeq(yielded, IsDiagnostic)

\* C18: a run() call whose write has failed k times has yielded k - 1
\* diagnostics, none when no write has failed, and no diagnostic precedes
\* the second failure: the first failure yields none.
C18_DiagnosticsPerFailure ==
    cur_op.op = "run" =>
        /\ Len(Diagnostics) =
               (IF FailedCodeWrites = <<>> THEN 0
                ELSE Len(FailedCodeWrites) - 1)
        /\ Len(FailedCodeWrites) <= 1 =>
               \A i \in 1..Len(yielded) : ~IsDiagnostic(yielded[i])

\* the write of a call failed three times and then succeeded: the call has
\* yielded two diagnostics
C18_Witness ==
    /\ cur_op.op = "run"
    /\ Len(FailedCodeWrites) = 3
    /\ Len(CodeWrites) = 4
    /\ CodeWrites[4].ok
    /\ Len(Diagnostics) = 2

(***************************************************************************)
(* Properties of what one call leaves to the next, under SpecReuse.         *)
(***************************************************************************)
\* a line the child emitted after the call wrote its code makes a reader
\* set the done-signal: it carries the end-of-execution marker, or it is a
\* stderr line with KeyboardInterrupt
DoneLineEmitted ==
    \E i \in 1..Len(emit_log) :
        HandleLine(emit_log[i].line, emit_log[i].err).setdone

\* C19: a run() call that has returned from its drain loop was sent, after
\* it wrote its code, a line that sets the done-signal.
C19_DoneIsOfThisCall == ReturnedFromDrain => DoneLineEmitted

\* the event of a queue entry comes from a line that the process of the
\* session emitted on the stream of the entry after the call wrote its code
FromThisCall(q) ==
    /\ q.gen = process
    /\ \E i \in 1..Len(emit_log) :
           /\ emit_log[i].err = q.err
           /\ \E k \in 1..Len(HandleLine(emit_log[i].line, q.err).events) :
                  SameEvent(HandleLine(emit_log[i].line, q.err).events[k],
                            q.ev)

\* C20: every event a run() call has yielded from its drain loop comes from
\* a line the child produced after the call wrote its code.
C20_NoStaleEvent ==
    cur_op.op = "run" =>
        \A i \in 1..Len(yielded) :
            yielded[i].gen # 0 => FromThisCall(yielded[i])

====
